---- MODULE Spec2Model ----
(***************************************************************************)
(* Model of the DUID subsystem of spoofy (lib/duid.js and its CLI):        *)
(* the DUID codec, the original-value store, the macOS / Linux / Windows   *)
(* platform adapters and the cross-platform controller.                    *)
(*                                                                         *)
(* Conventions.  A Buffer is a sequence of bytes (0..255); JavaScript      *)
(* null, where a Buffer is expected, is the sequence Null.  A string is a  *)
(* sequence of one-character strings; a file that does not exist is the    *)
(* text NoFile.  Every external command (execSync) and every file write    *)
(* can fail: the outcome of each is an input of the action.                *)
(***************************************************************************)
EXTENDS Integers, Sequences, FiniteSets, TLC

\* ------------------------------------------------------------------ bounds
NumDuids  == 1     \* how many distinct operator-chosen DUIDs the store is handed
MaxOps    == 3     \* how many calls one run makes
MaxBytes  == 2     \* how long the arbitrary Buffers handed to the codec are

\* --------------------------------------------------------------- constants
DUID_LLT  == 1
DUID_EN   == 2
DUID_LL   == 3
DUID_UUID == 4
HW_TYPE_ETHERNET == 1
ENTERPRISE_NUMBER == 9
EPOCH_2000 == 946684800

Null   == <<-1>>               \* JavaScript null in place of a Buffer
NoFile == <<"<no file>">>      \* a file / registry value that does not exist
NoIface == "none"              \* iface = null
Iface   == "en0"               \* the one interface of the host

\* ------------------------------------------------------------------- text
HexLower == <<"0","1","2","3","4","5","6","7","8","9","a","b","c","d","e","f">>
HexUpper == <<"0","1","2","3","4","5","6","7","8","9","A","B","C","D","E","F">>

\* value of a hex digit of either case, -1 for any other character
HexChars == {HexLower[i] : i \in 1..16} \cup {HexUpper[i] : i \in 1..16}
HexMap == [c \in HexChars |-> (CHOOSE i \in 1..16 : HexLower[i] = c \/ HexUpper[i] = c) - 1]
HexVal(c) == IF c \in HexChars THEN HexMap[c] ELSE -1

IsHex(c) == HexVal(c) >= 0

\* String.prototype.toUpperCase / toLowerCase on the characters that occur
toUpperCase(t) == [i \in 1..Len(t) |-> IF IsHex(t[i]) THEN HexUpper[HexVal(t[i]) + 1] ELSE t[i]]
toLowerCase(t) == [i \in 1..Len(t) |-> IF IsHex(t[i]) THEN HexLower[HexVal(t[i]) + 1] ELSE t[i]]

\* buf.toString('hex'): two lowercase digits per byte
toStringHex(buf) ==
  [i \in 1..(2 * Len(buf)) |->
      IF i % 2 = 1 THEN HexLower[(buf[(i + 1) \div 2] \div 16) + 1]
                   ELSE HexLower[(buf[i \div 2] % 16) + 1]]

\* Buffer.from(text, 'hex'): whole pairs of hex digits, cut at the first pair
\* that is not two hex digits (a trailing odd digit is dropped)
HexPairs(t) ==
  LET n   == Len(t) \div 2
      bad == {k \in 1..n : ~(IsHex(t[2 * k - 1]) /\ IsHex(t[2 * k]))}
  IN IF bad = {} THEN 1..n
     ELSE 1..((CHOOSE k \in bad : \A j \in bad : k <= j) - 1)

BufferFromHex(t) ==
  [i \in 1..Cardinality(HexPairs(t)) |-> 16 * HexVal(t[2 * i - 1]) + HexVal(t[2 * i])]

\* the characters \s matches, of those that occur
Whitespace == {" ", "\t", "\n", "\r"}

\* text.replace(/[:\s]/g, '')
StripSeparators(t) == SelectSeq(t, LAMBDA c : c \notin {":"} \cup Whitespace)

duidToHex(duid) == toUpperCase(toStringHex(duid))

\* hexToDuid removing the colons only
hexToDuid_colonsOnly(hex) == BufferFromHex(SelectSeq(hex, LAMBDA c : c # ":"))

hexToDuid(hex) == BufferFromHex(StripSeparators(hex))

\* hex.match(/.{2}/g).join(':').toUpperCase(); match() is null for the empty
\* Buffer and .join then throws: the result is then ThrowText
ThrowText == <<"<TypeError>">>
formatDUID(duid) ==
  IF Len(duid) = 0 THEN ThrowText
  ELSE LET hex == toStringHex(duid) IN
       toUpperCase([i \in 1..(3 * Len(duid) - 1) |->
                      IF i % 3 = 0 THEN ":"
                      ELSE hex[2 * ((i - 1) \div 3) + (i % 3)]])

\* parseInt(h, 16) of one ':'-separated part: the leading hex digits of it
RECURSIVE ParseIntFrom(_, _)
ParseIntFrom(t, acc) ==
  IF Len(t) = 0 \/ ~IsHex(t[1]) THEN acc
  ELSE ParseIntFrom(Tail(t), 16 * acc + HexVal(t[1]))
parseInt16(t) == ParseIntFrom(t, 0)

\* macAddr.split(':')
RECURSIVE SplitColon(_, _)
SplitColon(t, cur) ==
  IF Len(t) = 0 THEN <<cur>>
  ELSE IF t[1] = ":" THEN <<cur>> \o SplitColon(Tail(t), <<>>)
  ELSE SplitColon(Tail(t), Append(cur, t[1]))

\* ------------------------------------------------------------------ codec
\* bytes.map(b => b.toString(16).padStart(2, '0')).join(':')
ColonHexLower(bytes) ==
  IF Len(bytes) = 0 THEN <<>>
  ELSE LET hex == toStringHex(bytes) IN
       [i \in 1..(3 * Len(bytes) - 1) |->
          IF i % 3 = 0 THEN ":" ELSE hex[2 * ((i - 1) \div 3) + (i % 3)]]

\* generateRandomMAC, rnd the six bytes Math.random() gives
\* generateRandomMAC without the locally-administered and multicast bits set
generateRandomMAC_plain(rnd) == ColonHexLower(rnd)

generateRandomMAC(rnd) ==
  ColonHexLower([rnd EXCEPT ![1] = (rnd[1] \div 4) * 4 + 2])

UInt16BE(n) == <<(n \div 256) % 256, n % 256>>
UInt32BE(n) == <<(n \div 16777216) % 256, (n \div 65536) % 256, (n \div 256) % 256, n % 256>>

\* six (or fewer) link-layer bytes written over a zero-filled field of six
LinkLayerField(macBytes) == [i \in 1..6 |-> IF i <= Len(macBytes) THEN macBytes[i] % 256 ELSE 0]

\* generateDUID taking the identifier of DUID_EN from the MAC with its colons
generateDUID_colonsKept(type, mac, rnd6, rnd16, now) ==
  LET macAddr  == IF mac = NoFile \/ Len(mac) = 0 THEN generateRandomMAC(rnd6) ELSE mac
      parts    == SplitColon(macAddr, <<>>)
      macBytes == [i \in 1..Len(parts) |-> parseInt16(parts[i])]
  IN CASE type = DUID_LLT ->
            UInt16BE(DUID_LLT) \o UInt16BE(HW_TYPE_ETHERNET)
              \o UInt32BE(now - EPOCH_2000) \o LinkLayerField(macBytes)
       [] type = DUID_EN ->
            UInt16BE(DUID_EN) \o UInt32BE(ENTERPRISE_NUMBER)
              \o BufferFromHex(macAddr)
       [] type = DUID_LL ->
            UInt16BE(DUID_LL) \o UInt16BE(HW_TYPE_ETHERNET) \o LinkLayerField(macBytes)
       [] type = DUID_UUID ->
            UInt16BE(DUID_UUID)
              \o [i \in 1..16 |-> IF i = 7 THEN (rnd16[i] % 16) + 64
                                  ELSE IF i = 9 THEN (rnd16[i] % 64) + 128
                                  ELSE rnd16[i]]
       [] OTHER -> Null

\* generateDUID leaving the UUID's version and variant bits as drawn
generateDUID_plainRandom(type, mac, rnd6, rnd16, now) ==
  LET macAddr  == IF mac = NoFile \/ Len(mac) = 0 THEN generateRandomMAC(rnd6) ELSE mac
      parts    == SplitColon(macAddr, <<>>)
      macBytes == [i \in 1..Len(parts) |-> parseInt16(parts[i])]
  IN CASE type = DUID_LLT ->
            UInt16BE(DUID_LLT) \o UInt16BE(HW_TYPE_ETHERNET)
              \o UInt32BE(now - EPOCH_2000) \o LinkLayerField(macBytes)
       [] type = DUID_EN ->
            UInt16BE(DUID_EN) \o UInt32BE(ENTERPRISE_NUMBER)
              \o BufferFromHex(StripSeparators(macAddr))
       [] type = DUID_LL ->
            UInt16BE(DUID_LL) \o UInt16BE(HW_TYPE_ETHERNET) \o LinkLayerField(macBytes)
       [] type = DUID_UUID ->
            UInt16BE(DUID_UUID)
              \o [i \in 1..16 |-> rnd16[i]]
       [] OTHER -> Null

\* generateDUID(type, mac): mac is a text or Null-text NoFile for "no mac";
\* rnd6 / rnd16 are the random bytes drawn, now the clock in seconds.
\* The result is Null when the type is unknown (the function throws).
generateDUID(type, mac, rnd6, rnd16, now) ==
  LET macAddr  == IF mac = NoFile \/ Len(mac) = 0 THEN generateRandomMAC(rnd6) ELSE mac
      parts    == SplitColon(macAddr, <<>>)
      macBytes == [i \in 1..Len(parts) |-> parseInt16(parts[i])]
  IN CASE type = DUID_LLT ->
            UInt16BE(DUID_LLT) \o UInt16BE(HW_TYPE_ETHERNET)
              \o UInt32BE(now - EPOCH_2000) \o LinkLayerField(macBytes)
       [] type = DUID_EN ->
            UInt16BE(DUID_EN) \o UInt32BE(ENTERPRISE_NUMBER)
              \o BufferFromHex(StripSeparators(macAddr))
       [] type = DUID_LL ->
            UInt16BE(DUID_LL) \o UInt16BE(HW_TYPE_ETHERNET) \o LinkLayerField(macBytes)
       [] type = DUID_UUID ->
            UInt16BE(DUID_UUID)
              \o [i \in 1..16 |-> IF i = 7 THEN (rnd16[i] % 16) + 64
                                  ELSE IF i = 9 THEN (rnd16[i] % 64) + 128
                                  ELSE rnd16[i]]
       [] OTHER -> Null

\* buf.slice(from, to) with offsets counted from 0, to exclusive, cut at the end
SliceOf(buf, from, to) ==
  [i \in 1..(IF Len(buf) < to THEN (IF Len(buf) > from THEN Len(buf) - from ELSE 0)
             ELSE to - from) |-> buf[from + i]]

ReadUInt16BE(buf, off) == 256 * buf[off + 1] + buf[off + 2]
ReadUInt32BE(buf, off) ==
  16777216 * buf[off + 1] + 65536 * buf[off + 2] + 256 * buf[off + 3] + buf[off + 4]

\* Object.keys(DUID_TYPES).find(k => DUID_TYPES[k] === type) || 'unknown'
TypeName(type) ==
  CASE type = DUID_LLT -> "DUID_LLT"
    [] type = DUID_EN -> "DUID_EN"
    [] type = DUID_LL -> "DUID_LL"
    [] type = DUID_UUID -> "DUID_UUID"
    [] OTHER -> "unknown"

\* duid.slice(from) to the end
SliceFrom(buf, from) == SliceOf(buf, from, IF Len(buf) > from THEN Len(buf) ELSE from)

\* the five groups of a UUID joined by '-'
UuidText(uuid) ==
  toStringHex(SliceOf(uuid, 0, 4)) \o <<"-">> \o toStringHex(SliceOf(uuid, 4, 6))
    \o <<"-">> \o toStringHex(SliceOf(uuid, 6, 8)) \o <<"-">>
    \o toStringHex(SliceOf(uuid, 8, 10)) \o <<"-">> \o toStringHex(SliceOf(uuid, 10, 16))

\* the result object with none of the optional members: hwType, time, timeDate
\* and enterpriseNumber are -1, lladdr, identifier and uuid are NoFile, where
\* the code leaves the member undefined.  timeDate, the Date of the instant
\* time seconds after 2000-01-01, is named by that number of seconds.
ParsedBase(type, typeName, raw) ==
  [type |-> type, typeName |-> typeName, raw |-> raw, hwType |-> -1, time |-> -1,
   timeDate |-> -1, lladdr |-> NoFile, enterpriseNumber |-> -1, identifier |-> NoFile,
   uuid |-> NoFile]

\* parseDUID asking of a DUID_LLT only the bytes of its fixed header
parseDUID_headerOnly(duid) ==
  IF duid = Null \/ Len(duid) < 2 THEN ParsedBase(-1, "none", duid)
  ELSE LET type == ReadUInt16BE(duid, 0)
           base == ParsedBase(type, TypeName(type), formatDUID(duid))
       IN CASE type = DUID_LLT /\ Len(duid) >= 8 ->
                 [base EXCEPT !.hwType = ReadUInt16BE(duid, 2),
                              !.time = ReadUInt32BE(duid, 4),
                              !.timeDate = ReadUInt32BE(duid, 4),
                              !.lladdr = ColonHexLower(SliceOf(duid, 8, 14))]
            [] type = DUID_EN /\ Len(duid) >= 6 ->
                 [base EXCEPT !.enterpriseNumber = ReadUInt32BE(duid, 2),
                              !.identifier = toStringHex(SliceFrom(duid, 6))]
            [] type = DUID_LL /\ Len(duid) >= 10 ->
                 [base EXCEPT !.hwType = ReadUInt16BE(duid, 2),
                              !.lladdr = ColonHexLower(SliceOf(duid, 4, 10))]
            [] type = DUID_UUID /\ Len(duid) >= 18 ->
                 [base EXCEPT !.uuid = UuidText(SliceOf(duid, 2, 18))]
            [] OTHER -> base

\* parseDUID(duid): for null and for a Buffer of fewer than two bytes the type
\* is -1 ('unknown'), there is no typeName ("none") and raw is the argument
\* itself; otherwise raw is formatDUID(duid)
parseDUID(duid) ==
  IF duid = Null \/ Len(duid) < 2 THEN ParsedBase(-1, "none", duid)
  ELSE LET type == ReadUInt16BE(duid, 0)
           base == ParsedBase(type, TypeName(type), formatDUID(duid))
       IN CASE type = DUID_LLT /\ Len(duid) >= 14 ->
                 [base EXCEPT !.hwType = ReadUInt16BE(duid, 2),
                              !.time = ReadUInt32BE(duid, 4),
                              !.timeDate = ReadUInt32BE(duid, 4),
                              !.lladdr = ColonHexLower(SliceOf(duid, 8, 14))]
            [] type = DUID_EN /\ Len(duid) >= 6 ->
                 [base EXCEPT !.enterpriseNumber = ReadUInt32BE(duid, 2),
                              !.identifier = toStringHex(SliceFrom(duid, 6))]
            [] type = DUID_LL /\ Len(duid) >= 10 ->
                 [base EXCEPT !.hwType = ReadUInt16BE(duid, 2),
                              !.lladdr = ColonHexLower(SliceOf(duid, 4, 10))]
            [] type = DUID_UUID /\ Len(duid) >= 18 ->
                 [base EXCEPT !.uuid = UuidText(SliceOf(duid, 2, 18))]
            [] OTHER -> base

\* ------------------------------------------------------------ input pools
FactoryDUID == <<0, 3, 0, 1, 0, 17, 34, 51, 68, 85>>
OperatorDUID(k) == <<0, 3, 0, 1, 170, 187, 204, 221, 238, 255 - k>>
LiveMAC == <<"1","1",":","2","2",":","3","3",":","4","4",":","5","5",":","6","6">>
NoMac == NoFile
Rnd6  == <<255, 1, 2, 3, 4, 5>>
Rnd16 == <<255, 255, 255, 255, 255, 255, 255, 255, 255, 255, 255, 255, 255, 255, 255, 255>>
NowSeconds == EPOCH_2000 + 86400

\* the Buffers the store is handed directly
StoreInputs == {FactoryDUID} \cup {OperatorDUID(k) : k \in 1..NumDuids}

\* what the caller hands to setDUID: a Buffer, or a hex text
SetInputs ==
  {[buf |-> TRUE, bytes |-> OperatorDUID(1), text |-> <<>>],
   [buf |-> FALSE, bytes |-> <<>>, text |-> formatDUID(OperatorDUID(1))]}
\* the types randomizeDUID and syncDUID are asked for: one of DUID_TYPES, and
\* a number that is none of them
TypePool == {DUID_LL, DUID_UUID + 3}
\* the types generateDUID has a case for
GeneratedTypes == {DUID_LLT, DUID_EN, DUID_LL, DUID_UUID}
MacPool == {NoMac}
Ifaces == {NoIface, Iface}

\* the external steps that can fail, and the sets of them failing in one call
Faults == {"read", "storeWrite", "storeRead", "v6off", "v6offHard", "clear", "clear2",
           "write", "v6on", "v6onHard", "restart", "nmLookup", "nmModify", "nmCycle",
           "macRead"}
FaultSets(relevant) == {{}} \cup {{f} : f \in relevant}

\* ------------------------------------------------------------------ state
VARIABLES
  platform,      \* os.platform(): "darwin", "linux" or "win32"
  client,        \* linux: what detectDHCPClient() finds
  privileged,    \* the invocation runs as root / Administrator
  sysDir,        \* the system directory of the store exists
  origSys,       \* the record file at the system path
  origUser,      \* the record file at the per-user fallback path
  duidFile,      \* darwin: /var/db/dhcpclient/DUID (a Buffer or Null)
  defaultsOut,   \* darwin: what `defaults read /var/db/dhcpclient/DUID` prints
  leases,        \* darwin: /var/db/dhcpclient/leases holds cached leases
  ipv6,          \* the interface's IPv6 stack: "on" or "off"
  sdConf,        \* systemd: DUIDRawData of 00-duid.conf, or NoFile
  sdNet,         \* systemd: DUIDRawData of <iface>.network, or NoFile
  sdActive,      \* systemd: the DUID `networkctl status` prints, <<>> for none
  dhConf,        \* dhclient: the client-id of dhclient6.conf, <<>> no line, or NoFile
  nmDuid,        \* NetworkManager: the connection's DUID property, <<>> for none
  regDuid,       \* win32: the Dhcpv6DUID registry value, or NoFile
  orig0,         \* history: the DUID that was active before any call
  hist,          \* history: "none" no call yet; "sets" only setDUID-family calls so
                 \* far, each returned normally with no failed step; "setsReset" those
                 \* followed by resetDUID calls with no failed step; else "other"
  opCount,       \* history: how many calls were made
  lastOp,        \* the operation that ran last
  lastIface,     \* the interface it was given
  ret,           \* what it returned: "true", "false", "not_spoofed", "throw", ...
  retDuid,       \* the Buffer it returned, or Null
  trace,         \* the steps it took, in order
  stepFault,     \* an external step failed within it
  codec,         \* a caller of the codec alone: its arguments and the values it holds
  race           \* two invocations inside storeOriginalDUID at once: where each is

hostVars == <<platform, client, privileged, sysDir, origSys, origUser, duidFile,
              defaultsOut, leases, ipv6, sdConf, sdNet, sdActive, dhConf, nmDuid, regDuid,
              orig0, hist, opCount, lastOp, lastIface, ret, retDuid, trace, stepFault>>

vars == <<hostVars, codec, race>>

\* the state as one record, which the operations below transform; thrown
\* (the call has thrown) belongs to one call and is not kept
World ==
  [platform |-> platform, client |-> client, privileged |-> privileged,
   sysDir |-> sysDir, origSys |-> origSys, origUser |-> origUser,
   duidFile |-> duidFile, defaultsOut |-> defaultsOut, leases |-> leases, ipv6 |-> ipv6,
   sdConf |-> sdConf, sdNet |-> sdNet, sdActive |-> sdActive, dhConf |-> dhConf,
   nmDuid |-> nmDuid, regDuid |-> regDuid, orig0 |-> orig0, hist |-> hist,
   opCount |-> opCount, lastOp |-> lastOp, lastIface |-> lastIface, ret |-> ret,
   retDuid |-> retDuid, trace |-> trace, stepFault |-> stepFault, thrown |-> FALSE]

SetFamily == {"setDUID", "randomizeDUID", "syncDUID"}

\* the history after the call that ends in s
NextHist(s) ==
  IF s.hist \in {"none", "sets"} /\ s.lastOp \in SetFamily
       /\ s.ret \in {"true", "duid"} /\ ~s.stepFault THEN "sets"
  ELSE IF s.hist \in {"sets", "setsReset"} /\ s.lastOp = "resetDUID"
       /\ s.ret = "true" /\ ~s.stepFault THEN "setsReset"
  ELSE "other"

Apply(s) ==
  /\ platform' = s.platform /\ client' = s.client /\ privileged' = s.privileged
  /\ sysDir' = s.sysDir /\ origSys' = s.origSys /\ origUser' = s.origUser
  /\ duidFile' = s.duidFile /\ defaultsOut' = s.defaultsOut /\ leases' = s.leases
  /\ ipv6' = s.ipv6 /\ sdConf' = s.sdConf /\ sdNet' = s.sdNet /\ sdActive' = s.sdActive
  /\ dhConf' = s.dhConf /\ nmDuid' = s.nmDuid /\ regDuid' = s.regDuid
  /\ orig0' = s.orig0
  /\ hist' = NextHist(s)
  /\ opCount' = s.opCount /\ lastOp' = s.lastOp /\ lastIface' = s.lastIface
  /\ ret' = s.ret /\ retDuid' = s.retDuid /\ trace' = s.trace /\ stepFault' = s.stepFault
  /\ UNCHANGED <<codec, race>>

\* the start of a call: the result fields are reset
Begin(s, op, iface) ==
  [s EXCEPT !.opCount = @ + 1, !.lastOp = op, !.lastIface = iface, !.ret = "none",
            !.retDuid = Null, !.trace = <<>>, !.stepFault = FALSE, !.thrown = FALSE]

Log(s, step)  == [s EXCEPT !.trace = Append(@, step)]
Fault(s)      == [s EXCEPT !.stepFault = TRUE]
Throw(s)      == [s EXCEPT !.thrown = TRUE, !.ret = "throw"]
Return(s, r)  == IF s.thrown THEN s ELSE [s EXCEPT !.ret = r]
\* a call that returns a Buffer
ReturnDuid(s, duid) == IF s.thrown THEN s ELSE [s EXCEPT !.ret = "duid", !.retDuid = duid]

\* ------------------------------------------------------ original-value store
\* the content of a record file: the JSON metadata storeOriginalDUID writes, a
\* legacy file of raw bytes, or no file
NoRecord == [fmt |-> "none", duid |-> <<>>, raw |-> <<>>, platform |-> "none"]
JsonRecord(hex, plat) == [fmt |-> "json", duid |-> hex, raw |-> <<>>, platform |-> plat]

\* getOriginalDUIDPath: "sys" or "user", and the state after it (on linux and
\* win32 it creates the system directory when that is missing and it may)
getOriginalDUIDPath(s) ==
  IF s.platform = "darwin" THEN [s |-> s, path |-> "sys"]
  ELSE IF s.sysDir THEN [s |-> s, path |-> "sys"]
  ELSE IF s.privileged THEN [s |-> [s EXCEPT !.sysDir = TRUE], path |-> "sys"]
  ELSE [s |-> s, path |-> "user"]

FileAt(s, path) == IF path = "sys" THEN s.origSys ELSE s.origUser
WithFileAt(s, path, rec) ==
  IF path = "sys" THEN [s EXCEPT !.origSys = rec] ELSE [s EXCEPT !.origUser = rec]

\* storeOriginalDUID without the existsSync check: it writes over a record
storeOriginalDUID_overwrite(s, duid, F) ==
  LET p  == getOriginalDUIDPath(s)
      s1 == p.s
  IN IF "storeWrite" \in F \/ (p.path = "sys" /\ ~s1.privileged)
       THEN Throw(Fault(s1))
       ELSE Return(WithFileAt(s1, p.path, JsonRecord(toStringHex(duid), s1.platform)),
                   "true")

\* storeOriginalDUID(duid): writes the record unless one exists at the path;
\* .ret is "true" / "false", or the call throws when the write fails
storeOriginalDUID(s, duid, F) ==
  LET p  == getOriginalDUIDPath(s)
      s1 == p.s
  IN IF FileAt(s1, p.path).fmt # "none" THEN Return(s1, "false")
     ELSE IF "storeWrite" \in F \/ (p.path = "sys" /\ ~s1.privileged)
       THEN Throw(Fault(s1))
       ELSE Return(WithFileAt(s1, p.path, JsonRecord(toStringHex(duid), s1.platform)),
                   "true")

\* storeOriginalDUID as the system calls it is made of, between which another
\* process can run.  me is the invocation: the Buffer it was given, the path it
\* computed, where it is (pc) and what it returned.
\* line 186: the path (and the mkdir of getOriginalDUIDPath)
storeOriginalDUID_path(s, me) ==
  LET p == getOriginalDUIDPath(s)
  IN [s |-> p.s, me |-> [me EXCEPT !.pc = "check", !.path = p.path]]

\* lines 188-190: existsSync(originalPath)
storeOriginalDUID_check(s, me) ==
  IF FileAt(s, me.path).fmt # "none" THEN [me EXCEPT !.pc = "done", !.ret = "false"]
  ELSE [me EXCEPT !.pc = "write"]

\* the write made with the flag 'wx': it fails when the file exists by now
storeOriginalDUID_writeExclusive(s, me, F) ==
  IF "storeWrite" \in F \/ (me.path = "sys" /\ ~s.privileged)
       \/ FileAt(s, me.path).fmt # "none"
    THEN [s |-> s, me |-> [me EXCEPT !.pc = "done", !.ret = "throw"]]
    ELSE [s |-> WithFileAt(s, me.path, JsonRecord(toStringHex(me.duid), s.platform)),
          me |-> [me EXCEPT !.pc = "done", !.ret = "true"]]

\* lines 191-205: the directory of the path is made when missing, and
\* writeFileSync writes the record, over whatever is there
storeOriginalDUID_write(s, me, F) ==
  IF "storeWrite" \in F \/ (me.path = "sys" /\ ~s.privileged)
    THEN [s |-> s, me |-> [me EXCEPT !.pc = "done", !.ret = "throw"]]
    ELSE [s |-> WithFileAt(s, me.path, JsonRecord(toStringHex(me.duid), s.platform)),
          me |-> [me EXCEPT !.pc = "done", !.ret = "true"]]

\* getOriginalDUID without the legacy fallback: what is not the JSON record is
\* no record
getOriginalDUID_noFallback(s, F) ==
  LET p   == getOriginalDUIDPath(s)
      rec == FileAt(p.s, p.path)
  IN IF rec.fmt = "none" THEN [s |-> p.s, duid |-> Null]
     ELSE IF "storeRead" \in F THEN [s |-> Fault(p.s), duid |-> Null]
     ELSE IF rec.fmt = "json" THEN [s |-> p.s, duid |-> BufferFromHex(rec.duid)]
     ELSE [s |-> p.s, duid |-> Null]

\* getOriginalDUID: [s |-> the state after, duid |-> the Buffer or Null]
getOriginalDUID(s, F) ==
  LET p   == getOriginalDUIDPath(s)
      rec == FileAt(p.s, p.path)
  IN IF rec.fmt = "none" THEN [s |-> p.s, duid |-> Null]
     ELSE IF "storeRead" \in F THEN [s |-> Fault(p.s), duid |-> Null]
     ELSE IF rec.fmt = "json" THEN [s |-> p.s, duid |-> BufferFromHex(rec.duid)]
     ELSE [s |-> p.s, duid |-> rec.raw]

hasOriginalDUID(s) ==
  LET p == getOriginalDUIDPath(s)
  IN [s |-> p.s, has |-> FileAt(p.s, p.path).fmt # "none"]

clearOriginalDUID(s, F) ==
  LET p  == getOriginalDUIDPath(s)
      s1 == p.s
  IN IF FileAt(s1, p.path).fmt = "none" THEN Return(s1, "false")
     ELSE IF "storeWrite" \in F \/ (p.path = "sys" /\ ~s1.privileged)
       THEN Throw(Fault(s1))
       ELSE Return(WithFileAt(s1, p.path, NoRecord), "true")

\* load() and has() as a call made in state w finds them
LoadOf(w) == getOriginalDUID(w, {}).duid
HasOf(w)  == hasOriginalDUID(w).has
LoadNow == LoadOf(World)
HasNow  == HasOf(World)

\* a failed read of the active DUID is an external failure of the call
ReadFault(s, F) == IF "read" \in F THEN Fault(s) ELSE s

\* ------------------------------------------------------------------ macOS
macos_getCurrentDUID(s, F) ==
  IF "read" \in F THEN Null
  ELSE IF s.duidFile # Null THEN s.duidFile
  ELSE IF s.defaultsOut # NoFile /\ Len(s.defaultsOut) > 0 THEN hexToDuid(s.defaultsOut)
  ELSE Null

macos_backupOriginal(s, F) ==
  LET current == macos_getCurrentDUID(s, F)
      s1 == Log(ReadFault(s, F), "backup")
  IN IF current # Null THEN Return(storeOriginalDUID(s1, current, F), "true")
     ELSE Return(s1, "false")

\* networksetup -setv6off / -setv6automatic on the interface, with the
\* hardware-port fallback of setDUID and restoreDUID: the fallback command is
\* outside any try, so its failure is thrown
macos_setv6(s, iface, F, to) ==
  IF s.thrown \/ iface = NoIface THEN s
  ELSE LET s1 == Log(s, "v6" \o to) IN
       IF ("v6" \o to \o "Hard") \in F \/ ~s.privileged THEN Throw(Fault(s1))
       ELSE IF ("v6" \o to) \in F THEN Fault(s1)
       ELSE [s1 EXCEPT !.ipv6 = to]

\* rm -f /var/db/dhcpclient/DUID* (setDUID) or .../DUID (restoreDUID), then
\* rm -rf /var/db/dhcpclient/leases/*, both in one try.  The record
\* /var/db/dhcpclient/DUID.original matches the pattern DUID*.
macos_clear(s, F, glob) ==
  IF s.thrown THEN s
  ELSE LET s1 == Log(s, "clear") IN
       IF "clear" \in F \/ ~s.privileged THEN Fault(s1)
       ELSE LET s2 == [s1 EXCEPT !.duidFile = Null,
                                 !.origSys = IF glob THEN NoRecord ELSE @,
                                 !.defaultsOut = IF glob THEN NoFile ELSE @]
            IN IF "clear2" \in F THEN Fault(s2) ELSE [s2 EXCEPT !.leases = FALSE]

\* fs.writeFileSync(DUID_PATH, duid)
macos_write(s, duid, F) ==
  IF s.thrown THEN s
  ELSE LET s1 == Log(s, "write") IN
       IF "write" \in F \/ ~s.privileged THEN Throw(Fault(s1))
       ELSE [s1 EXCEPT !.duidFile = duid]

\* setDUID with the backup made after the clearing step instead of first
macos_setDUID_backupLate(s, duid, iface, F) ==
  LET s1 == macos_setv6(s, iface, F, "off")
      s2 == macos_clear(s1, F, TRUE)
      s3 == IF s2.thrown THEN s2 ELSE macos_backupOriginal(s2, F)
      s4 == macos_write(s3, duid, F)
      s5 == macos_setv6(s4, iface, F, "on")
  IN Return(s5, "true")

macos_setDUID(s, duid, iface, F) ==
  LET s1 == macos_backupOriginal(s, F)
      s2 == macos_setv6(s1, iface, F, "off")
      s3 == macos_clear(s2, F, TRUE)
      s4 == macos_write(s3, duid, F)
      s5 == macos_setv6(s4, iface, F, "on")
  IN Return(s5, "true")

\* restoreDUID with the clearing step run before the record is looked at
macos_restoreDUID_clearFirst(s, iface, F) ==
  LET o == getOriginalDUID(s, F)
      current == macos_getCurrentDUID(o.s, F)
      s1 == ReadFault(o.s, F)
      s2 == macos_setv6(s1, iface, F, "off")
      s3 == macos_clear(s2, F, FALSE)
      s4 == macos_write(s3, o.duid, F)
      s5 == macos_setv6(s4, iface, F, "on")
  IN IF o.duid = Null THEN Return(macos_clear(o.s, F, FALSE), "false")
     ELSE IF current # Null /\ current = o.duid THEN Return(s1, "not_spoofed")
     ELSE Return(s5, "true")

macos_restoreDUID(s, iface, F) ==
  LET o == getOriginalDUID(s, F)
      current == macos_getCurrentDUID(o.s, F)
      s1 == ReadFault(o.s, F)
      s2 == macos_setv6(s1, iface, F, "off")
      s3 == macos_clear(s2, F, FALSE)
      s4 == macos_write(s3, o.duid, F)
      s5 == macos_setv6(s4, iface, F, "on")
  IN IF o.duid = Null THEN Return(o.s, "false")
     ELSE IF current # Null /\ current = o.duid THEN Return(s1, "not_spoofed")
     ELSE Return(s5, "true")

\* resetDUID: every step is in a try of its own
macos_resetv6(s, iface, F, to) ==
  IF iface = NoIface THEN s
  ELSE LET s1 == Log(s, "v6" \o to) IN
       IF ("v6" \o to) \in F \/ ~s.privileged THEN Fault(s1)
       ELSE [s1 EXCEPT !.ipv6 = to]

macos_resetDUID(s, iface, F) ==
  LET s1 == macos_resetv6(s, iface, F, "off")
      s2 == IF "clear" \in F \/ ~s1.privileged THEN Fault(Log(s1, "clear"))
            ELSE [Log(s1, "clear") EXCEPT !.duidFile = Null]
      s3 == macos_resetv6(s2, iface, F, "on")
  IN Return(s3, "true")

\* ------------------------------------------------------------------ Linux
StableLLT == <<"s","t","a","b","l","e","-","l","l","t">>

linux_getCurrentDUID(s, F) ==
  IF "read" \in F THEN Null
  ELSE CASE s.client = "systemd" ->
              IF Len(s.sdActive) = 0 THEN Null ELSE hexToDuid(s.sdActive)
         [] s.client = "dhclient" ->
              IF s.dhConf = NoFile \/ Len(s.dhConf) = 0 THEN Null ELSE hexToDuid(s.dhConf)
         [] s.client = "networkmanager" ->
              IF Len(s.nmDuid) = 0 THEN Null ELSE hexToDuid(s.nmDuid)
         [] OTHER -> Null

linux_backupOriginal(s, F) ==
  LET current == linux_getCurrentDUID(s, F)
      s1 == Log(ReadFault(s, F), "backup")
  IN IF current # Null THEN Return(storeOriginalDUID(s1, current, F), "true")
     ELSE Return(s1, "false")

\* the DUID systemd-networkd uses after a restart: the interface's .network
\* file, else 00-duid.conf, else the one the system derives by itself
sdEffective(s) ==
  IF s.sdNet # NoFile THEN ColonHexLower(BufferFromHex(s.sdNet))
  ELSE IF s.sdConf # NoFile THEN ColonHexLower(BufferFromHex(s.sdConf))
  ELSE IF s.orig0 = Null THEN <<>> ELSE ColonHexLower(s.orig0)

\* systemctl restart systemd-networkd, in a try
linux_restart(s, F) ==
  IF s.thrown THEN s
  ELSE LET s1 == Log(s, "restart") IN
       IF "restart" \in F \/ ~s.privileged THEN Fault(s1)
       ELSE [s1 EXCEPT !.sdActive = sdEffective(s1)]

\* the write of the three client variants, shared by setDUID and restoreDUID;
\* perIface: setDUID writes <iface>.network when an interface is given,
\* restoreDUID always writes 00-duid.conf
linux_write(s, duid, iface, F, perIface) ==
  IF s.thrown THEN s
  ELSE IF formatDUID(duid) = ThrowText THEN Throw(s)
  ELSE LET duidHex == toLowerCase(formatDUID(duid))
           failed  == "write" \in F \/ ~s.privileged
       IN CASE s.client = "systemd" ->
                 IF failed THEN Throw(Fault(Log(s, "write")))
                 ELSE linux_restart(
                        IF perIface /\ iface # NoIface
                          THEN [Log(s, "write") EXCEPT !.sdNet = toStringHex(duid)]
                          ELSE [Log(s, "write") EXCEPT !.sdConf = toStringHex(duid)], F)
            [] s.client = "dhclient" ->
                 IF failed THEN Throw(Fault(Log(s, "write")))
                 ELSE [Log(s, "write") EXCEPT !.dhConf = duidHex]
            [] s.client = "networkmanager" ->
                 IF iface = NoIface THEN s
                 ELSE IF "nmLookup" \in F THEN Fault(s)
                 ELSE IF "nmModify" \in F \/ ~s.privileged THEN Fault(Log(s, "write"))
                 ELSE IF "nmCycle" \in F
                   THEN Fault([Log(s, "write") EXCEPT !.nmDuid = duidHex])
                   ELSE [Log(s, "write") EXCEPT !.nmDuid = duidHex]
            [] OTHER -> s

linux_setDUID(s, duid, iface, F) ==
  LET s1 == linux_backupOriginal(s, F)
      s2 == linux_write(s1, duid, iface, F, TRUE)
  IN IF s1.thrown THEN s1
     ELSE IF s1.client = "unknown" /\ formatDUID(duid) # ThrowText THEN Throw(s1)
     ELSE Return(s2, "true")

linux_restoreDUID(s, iface, F) ==
  LET o == getOriginalDUID(s, F)
      current == linux_getCurrentDUID(o.s, F)
      s1 == ReadFault(o.s, F)
      s2 == linux_write(s1, o.duid, iface, F, FALSE)
  IN IF o.duid = Null THEN Return(o.s, "false")
     ELSE IF current # Null /\ current = o.duid THEN Return(s1, "not_spoofed")
     ELSE Return(s2, "true")

linux_resetDUID(s, iface, F) ==
  LET failed == "write" \in F \/ ~s.privileged
  IN CASE s.client = "systemd" ->
            IF s.sdConf = NoFile /\ (iface = NoIface \/ s.sdNet = NoFile)
              THEN Return(linux_restart(s, F), "true")
            ELSE IF failed THEN Throw(Fault(Log(s, "clear")))
            ELSE Return(linux_restart(
                   [Log(s, "clear") EXCEPT !.sdConf = NoFile,
                                           !.sdNet = IF iface = NoIface THEN @ ELSE NoFile],
                   F), "true")
       [] s.client = "dhclient" ->
            IF s.dhConf = NoFile THEN Return(s, "true")
            ELSE IF failed THEN Throw(Fault(Log(s, "clear")))
            ELSE Return([Log(s, "clear") EXCEPT !.dhConf = <<>>], "true")
       [] s.client = "networkmanager" ->
            IF iface = NoIface THEN Return(s, "true")
            ELSE IF "nmLookup" \in F THEN Return(Fault(s), "true")
            ELSE IF "nmModify" \in F \/ ~s.privileged
              THEN Return(Fault(Log(s, "clear")), "true")
            ELSE Return([Log(s, "clear") EXCEPT !.nmDuid = StableLLT], "true")
       [] OTHER -> Return(s, "true")

\* ---------------------------------------------------------------- Windows
windows_getCurrentDUID(s, F) ==
  IF "read" \in F THEN Null
  ELSE IF s.regDuid = NoFile \/ Len(s.regDuid) = 0 THEN Null
  ELSE IF ~IsHex(s.regDuid[1]) THEN Null
  ELSE BufferFromHex(s.regDuid)

windows_backupOriginal(s, F) ==
  LET current == windows_getCurrentDUID(s, F)
      s1 == Log(ReadFault(s, F), "backup")
  IN IF current # Null THEN Return(storeOriginalDUID(s1, current, F), "true")
     ELSE Return(s1, "false")

\* reg add ... /v Dhcpv6DUID /t REG_BINARY /d <HEX> /f; a failure is rethrown
windows_write(s, duid, F) ==
  IF s.thrown THEN s
  ELSE LET s1 == Log(s, "write") IN
       IF "write" \in F \/ ~s.privileged THEN Throw(Fault(s1))
       ELSE [s1 EXCEPT !.regDuid = toUpperCase(toStringHex(duid))]

\* netsh ... disabled, then ... enabled (with the PowerShell fallback), in a try
windows_restartv6(s, iface, F) ==
  IF s.thrown \/ iface = NoIface THEN s
  ELSE IF "v6off" \in F \/ ~s.privileged THEN Fault(Log(s, "v6off"))
  ELSE IF "v6on" \in F THEN Fault([Log(Log(s, "v6off"), "v6on") EXCEPT !.ipv6 = "off"])
  ELSE [Log(Log(s, "v6off"), "v6on") EXCEPT !.ipv6 = "on"]

windows_setDUID(s, duid, iface, F) ==
  LET s1 == windows_backupOriginal(s, F)
      s2 == windows_write(s1, duid, F)
      s3 == windows_restartv6(s2, iface, F)
  IN Return(s3, "true")

windows_restoreDUID(s, iface, F) ==
  LET o == getOriginalDUID(s, F)
      current == windows_getCurrentDUID(o.s, F)
      s1 == ReadFault(o.s, F)
      s2 == windows_write(s1, o.duid, F)
      s3 == windows_restartv6(s2, iface, F)
  IN IF o.duid = Null THEN Return(o.s, "false")
     ELSE IF current # Null /\ current = o.duid THEN Return(s1, "not_spoofed")
     ELSE Return(s3, "true")

windows_resetDUID(s, iface, F) ==
  LET s1 == IF "write" \in F \/ ~s.privileged THEN Fault(Log(s, "clear"))
            ELSE [Log(s, "clear") EXCEPT !.regDuid = NoFile]
  IN Return(windows_restartv6(s1, iface, F), "true")

\* ------------------------------------------------------- cross-platform API
\* getPlatformImpl() dispatches on os.platform()
\* getCurrentDUID with a failed read passed over: it answers from what is there
getCurrentDUID_failureIgnored(s, F) ==
  CASE s.platform = "darwin" -> macos_getCurrentDUID(s, {})
    [] s.platform = "linux"  -> linux_getCurrentDUID(s, {})
    [] OTHER                 -> windows_getCurrentDUID(s, {})

getCurrentDUID(s, F) ==
  CASE s.platform = "darwin" -> macos_getCurrentDUID(s, F)
    [] s.platform = "linux"  -> linux_getCurrentDUID(s, F)
    [] OTHER                 -> windows_getCurrentDUID(s, F)

backupOriginal(s, F) ==
  CASE s.platform = "darwin" -> macos_backupOriginal(s, F)
    [] s.platform = "linux"  -> linux_backupOriginal(s, F)
    [] OTHER                 -> windows_backupOriginal(s, F)

platform_setDUID(s, duid, iface, F) ==
  CASE s.platform = "darwin" -> macos_setDUID(s, duid, iface, F)
    [] s.platform = "linux"  -> linux_setDUID(s, duid, iface, F)
    [] OTHER                 -> windows_setDUID(s, duid, iface, F)

\* setDUID(duid, iface): a hex text is converted by hexToDuid first
setDUID(s, input, iface, F) ==
  LET duidBuf == IF input.buf THEN input.bytes ELSE hexToDuid(input.text)
  IN platform_setDUID(s, duidBuf, iface, F)

restoreDUID(s, iface, F) ==
  CASE s.platform = "darwin" -> macos_restoreDUID(s, iface, F)
    [] s.platform = "linux"  -> linux_restoreDUID(s, iface, F)
    [] OTHER                 -> windows_restoreDUID(s, iface, F)

resetDUID(s, iface, F) ==
  CASE s.platform = "darwin" -> macos_resetDUID(s, iface, F)
    [] s.platform = "linux"  -> linux_resetDUID(s, iface, F)
    [] OTHER                 -> windows_resetDUID(s, iface, F)

\* randomizeDUID making the backup before it generates the DUID
randomizeDUID_backupFirst(s, type, iface, mac, F) ==
  LET duid == generateDUID(type, mac, Rnd6, Rnd16, NowSeconds)
      s1 == backupOriginal(s, F)
  IN IF duid = Null THEN Throw(s1)
     ELSE ReturnDuid(setDUID(s, [buf |-> TRUE, bytes |-> duid, text |-> <<>>], iface, F),
                     duid)

randomizeDUID(s, type, iface, mac, F) ==
  LET duid == generateDUID(type, mac, Rnd6, Rnd16, NowSeconds)
  IN IF duid = Null THEN Throw(s)
     ELSE ReturnDuid(setDUID(s, [buf |-> TRUE, bytes |-> duid, text |-> <<>>], iface, F),
                     duid)

\* getCurrentMACAddress(iface): the MAC text, NoFile for null, ThrowText when
\* no interface name is given
getCurrentMACAddress(s, iface, F) ==
  IF iface = NoIface THEN ThrowText
  ELSE IF "macRead" \in F THEN NoFile
  ELSE LiveMAC

\* syncDUID making the backup before it reads the interface's MAC
syncDUID_backupFirst(s, iface, type, F) ==
  LET currentMac == getCurrentMACAddress(s, iface, F)
      duid == generateDUID(type, currentMac, Rnd6, Rnd16, NowSeconds)
      s1 == backupOriginal(s, F)
  IN IF currentMac = ThrowText THEN Throw(s1)
     ELSE IF currentMac = NoFile THEN Throw(Fault(s1))
     ELSE IF duid = Null THEN Throw(s1)
     ELSE ReturnDuid(setDUID(s, [buf |-> TRUE, bytes |-> duid, text |-> <<>>], iface, F),
                     duid)

\* syncDUID generating from a random MAC instead of the interface's own
syncDUID_randomMac(s, iface, type, F) ==
  LET currentMac == getCurrentMACAddress(s, iface, F)
      duid == generateDUID(type, NoMac, Rnd6, Rnd16, NowSeconds)
  IN IF currentMac = ThrowText THEN Throw(s)
     ELSE IF currentMac = NoFile THEN Throw(Fault(s))
     ELSE IF duid = Null THEN Throw(s)
     ELSE ReturnDuid(setDUID(s, [buf |-> TRUE, bytes |-> duid, text |-> <<>>], iface, F),
                     duid)

syncDUID(s, iface, type, F) ==
  LET currentMac == getCurrentMACAddress(s, iface, F)
      duid == generateDUID(type, currentMac, Rnd6, Rnd16, NowSeconds)
  IN IF currentMac = ThrowText THEN Throw(s)
     ELSE IF currentMac = NoFile THEN Throw(Fault(s))
     ELSE IF duid = Null THEN Throw(s)
     ELSE ReturnDuid(setDUID(s, [buf |-> TRUE, bytes |-> duid, text |-> <<>>], iface, F),
                     duid)

\* the active DUID as a getCurrentDUID() whose read succeeds finds it in state w
ActiveOf(w) == getCurrentDUID(w, {})
ActiveNow == ActiveOf(World)

\* -------------------------------------------------------------------- CLI
\* `original clear` without the --force check
commands_original_clear_unforced(s, force, F) ==
  IF ~s.privileged THEN Return(s, "exit1")
  ELSE LET h == hasOriginalDUID(s) IN
       IF ~h.has THEN Return(h.s, "nothing")
       ELSE Return(clearOriginalDUID(h.s, F), "cleared")

\* commands.original(['clear', ...]): .ret is "exit1" for process.exit(1),
\* "nothing" when no record is stored, "cleared" after clearOriginalDUID
commands_original_clear(s, force, F) ==
  IF ~s.privileged THEN Return(s, "exit1")
  ELSE LET h == hasOriginalDUID(s) IN
       IF ~h.has THEN Return(h.s, "nothing")
       ELSE IF ~force THEN Return(h.s, "exit1")
       ELSE Return(clearOriginalDUID(h.s, F), "cleared")

\* ------------------------------------------------------- the codec's caller
\* what a caller of the codec holds: the arguments it has for generateDUID
\* (type, mac, and the bytes Math.random() will give), the Buffer and the text
\* it works on, the results of parseDUID and generateRandomMAC, and the call
\* it made last; written is the Buffer a given text writes down
NotParsed == ParsedBase(-2, "not parsed", Null)
CodecIdle ==
  [kind |-> "idle", type |-> 0, mac |-> NoMac, rnd6 |-> Rnd6, rnd16 |-> Rnd16,
   written |-> Null, buf |-> Null, text |-> NoFile, parsed |-> NotParsed,
   macOut |-> NoFile, thrown |-> FALSE, last |-> "init"]

\* ----------------------------------------------------- concurrent callers
\* two invocations of the command at once; seen is how many writes of the
\* record had been made when the invocation checked for it, failed that its
\* writeFileSync failed on its own, writes the invocations that wrote, in order
Procs == {1, 2}
RaceIdle ==
  [proc |-> [p \in Procs |-> [pc |-> "idle", duid |-> Null, path |-> "none", seen |-> 0,
                              failed |-> FALSE, ret |-> "none"]],
   writes |-> <<>>]

\* ------------------------------------------------------------------- Init
Clients == {"systemd", "dhclient", "networkmanager", "unknown"}

\* the host before any call, the store's directory and files apart
HostInit ==
  /\ platform \in {"darwin", "linux", "win32"}
  /\ client \in IF platform = "linux" THEN Clients ELSE {"none"}
  /\ privileged \in BOOLEAN
  /\ orig0 \in IF client = "unknown" THEN {Null} ELSE {FactoryDUID, Null}
  /\ leases = TRUE /\ ipv6 = "on"
  /\ \E viaDefaults \in IF platform = "darwin" /\ orig0 # Null THEN BOOLEAN ELSE {FALSE} :
       /\ duidFile = IF platform = "darwin" /\ ~viaDefaults THEN orig0 ELSE Null
       /\ defaultsOut = IF viaDefaults THEN toStringHex(orig0) ELSE NoFile
  /\ sdConf = NoFile /\ sdNet = NoFile
  /\ sdActive = IF client = "systemd" /\ orig0 # Null THEN ColonHexLower(orig0) ELSE <<>>
  /\ dhConf = IF client # "dhclient" THEN NoFile
              ELSE IF orig0 = Null THEN <<>> ELSE toLowerCase(formatDUID(orig0))
  /\ nmDuid = IF client = "networkmanager" /\ orig0 # Null THEN formatDUID(orig0) ELSE <<>>
  /\ regDuid = IF platform = "win32" /\ orig0 # Null THEN toUpperCase(toStringHex(orig0))
               ELSE NoFile
  /\ hist = "none" /\ opCount = 0 /\ lastOp = "init" /\ lastIface = NoIface
  /\ ret = "none" /\ retDuid = Null /\ trace = <<>> /\ stepFault = FALSE

\* no record has been written yet
Init ==
  /\ HostInit
  /\ sysDir = (platform = "darwin")
  /\ origSys = NoRecord /\ origUser = NoRecord
  /\ codec = CodecIdle /\ race = RaceIdle

\* a record file left by an earlier version or an interrupted write: the raw
\* bytes of a DUID (legacy format), an empty file, the first bytes `{`, LF,
\* space, space, `"` of a record cut short, and the two bytes of `{}`, which
\* is JSON with no duid member
LegacyRecord(bytes) == [fmt |-> "raw", duid |-> <<>>, raw |-> bytes, platform |-> "none"]
TornBytes == <<123, 10, 32, 32, 34>>
EmptyObjectBytes == <<123, 125>>
RecordPool ==
  {NoRecord, JsonRecord(toStringHex(FactoryDUID), "none"), LegacyRecord(FactoryDUID),
   LegacyRecord(<<>>), LegacyRecord(TornBytes),
   [fmt |-> "jsonNoDuid", duid |-> <<>>, raw |-> EmptyObjectBytes, platform |-> "none"]}

\* the host with a record file of any of these kinds in the system directory
LoadInit ==
  /\ HostInit
  /\ sysDir = TRUE
  /\ origSys \in RecordPool /\ origUser = NoRecord
  /\ codec = CodecIdle /\ race = RaceIdle

\* ---------------------------------------------------------------- actions
\* the adapter's external steps that can fail on their own; without privilege
\* the privileged ones fail anyway, and only the read can fail on its own
PlatformFaults ==
  CASE ~privileged -> IF client = "unknown" THEN {} ELSE {"read"}
    [] platform = "darwin" ->
         {"read", "v6off", "v6offHard", "clear", "clear2", "write", "v6on", "v6onHard"}
    [] platform = "win32" -> {"read", "write", "v6off", "v6on"}
    [] client = "systemd" -> {"read", "write", "restart"}
    [] client = "dhclient" -> {"read", "write"}
    [] client = "networkmanager" -> {"read", "nmLookup", "nmModify", "nmCycle"}
    [] OTHER -> {}

\* the steps that are taken only for an interface
IfaceFaults == {"v6off", "v6offHard", "v6on", "v6onHard", "nmLookup", "nmModify", "nmCycle"}
\* the adapter's steps that a call given iface can reach
PlatformFaultsFor(iface) ==
  IF iface = NoIface THEN PlatformFaults \ IfaceFaults ELSE PlatformFaults

\* a hex text goes the way of the Buffer it stands for: the failures are drawn
\* for the Buffer
SetDUID ==
  /\ opCount < MaxOps
  /\ \E input \in SetInputs, iface \in Ifaces :
     \E F \in FaultSets(IF input.buf THEN PlatformFaultsFor(iface) \cup {"storeWrite"}
                                     ELSE {}) :
    \E r \in {setDUID(Begin(World, "setDUID", iface), input, iface, F)} : Apply(r)

RandomizeDUID ==
  /\ opCount < MaxOps
  /\ \E type \in TypePool, iface \in Ifaces, mac \in MacPool :
     \E F \in FaultSets(IF type \in GeneratedTypes
                           THEN PlatformFaultsFor(iface) \cup {"storeWrite"} ELSE {}) :
    \E r \in {randomizeDUID(Begin(World, "randomizeDUID", iface), type, iface, mac, F)} : Apply(r)

SyncDUID ==
  /\ opCount < MaxOps
  /\ \E type \in TypePool, iface \in Ifaces :
     \E F \in FaultSets(IF iface = NoIface THEN {}
                         ELSE {"macRead"} \cup (IF type \in GeneratedTypes
                                                THEN PlatformFaults \cup {"storeWrite"}
                                                ELSE {})) :
    \E r \in {syncDUID(Begin(World, "syncDUID", iface), iface, type, F)} : Apply(r)

RestoreDUID ==
  /\ opCount < MaxOps
  /\ \E iface \in Ifaces :
     \E F \in FaultSets(IF HasNow THEN PlatformFaultsFor(iface) \cup {"storeRead"} ELSE {}) :
    \E r \in {restoreDUID(Begin(World, "restoreDUID", iface), iface, F)} : Apply(r)

ResetDUID ==
  /\ opCount < MaxOps
  /\ \E iface \in Ifaces :
     \E F \in FaultSets(PlatformFaultsFor(iface) \ {"read"}) :
    \E r \in {resetDUID(Begin(World, "resetDUID", iface), iface, F)} : Apply(r)

BackupOriginal ==
  /\ opCount < MaxOps
  /\ \E F \in FaultSets({"read", "storeWrite"}) :
    \E r \in {backupOriginal(Begin(World, "backupOriginal", NoIface), F)} : Apply(r)

GetCurrentDUID ==
  /\ opCount < MaxOps
  /\ \E F \in FaultSets({"read"}) :
    \E r \in {ReturnDuid(ReadFault(Begin(World, "getCurrentDUID", NoIface), F),
                         getCurrentDUID(World, F))} : Apply(r)

StoreOriginalDUID ==
  /\ opCount < MaxOps
  /\ \E duid \in StoreInputs, F \in FaultSets({"storeWrite"}) :
    \E r \in {storeOriginalDUID(Begin(World, "storeOriginalDUID", NoIface), duid, F)} : Apply(r)

GetOriginalDUID ==
  /\ opCount < MaxOps
  /\ \E F \in FaultSets({"storeRead"}) :
    \E o \in {getOriginalDUID(Begin(World, "getOriginalDUID", NoIface), F)} :
      Apply(ReturnDuid(o.s, o.duid))

HasOriginalDUID ==
  /\ opCount < MaxOps
  /\ \E h \in {hasOriginalDUID(Begin(World, "hasOriginalDUID", NoIface))} :
    Apply(Return(h.s, IF h.has THEN "true" ELSE "false"))

GetOriginalDUIDPath ==
  /\ opCount < MaxOps
  /\ \E p \in {getOriginalDUIDPath(Begin(World, "getOriginalDUIDPath", NoIface))} :
    Apply(Return(p.s, p.path))

ClearOriginalDUID ==
  /\ opCount < MaxOps
  /\ \E F \in FaultSets({"storeWrite"}) :
    \E r \in {clearOriginalDUID(Begin(World, "clearOriginalDUID", NoIface), F)} : Apply(r)

\* spoofy duid original clear [--force]
OriginalClear ==
  /\ opCount < MaxOps
  /\ \E force \in BOOLEAN, F \in FaultSets({"storeWrite"}) :
    \E r \in {commands_original_clear(Begin(World, "originalClear", NoIface), force, F)} :
      Apply(r)

\* the next invocation runs under the other account (sudo or not)
SwitchUser ==
  /\ opCount < MaxOps
  /\ privileged' = ~privileged /\ opCount' = opCount + 1
  /\ lastOp' = "switchUser" /\ lastIface' = NoIface /\ ret' = "none"
  /\ retDuid' = Null /\ trace' = <<>> /\ stepFault' = FALSE
  /\ UNCHANGED <<platform, client, sysDir, origSys, origUser, duidFile, defaultsOut,
                 leases, ipv6, sdConf, sdNet, sdActive, dhConf, nmDuid, regDuid, orig0,
                 hist, codec, race>>

\* the controller and the adapters, as the CLI and the library's callers use them
Next ==
  \/ SetDUID
  \/ RandomizeDUID
  \/ SyncDUID
  \/ RestoreDUID
  \/ ResetDUID
  \/ BackupOriginal
  \/ ClearOriginalDUID
  \/ SwitchUser

Spec == Init /\ [][Next]_vars

\* the original-value store's own interface, called directly
StoreNext ==
  \/ StoreOriginalDUID
  \/ GetOriginalDUID
  \/ HasOriginalDUID
  \/ GetOriginalDUIDPath
  \/ ClearOriginalDUID
  \/ GetCurrentDUID
  \/ BackupOriginal
  \/ OriginalClear
  \/ SwitchUser

StoreSpec == Init /\ [][StoreNext]_vars

\* the store reading record files of every kind
LoadNext ==
  \/ GetOriginalDUID
  \/ HasOriginalDUID
  \/ StoreOriginalDUID
  \/ ClearOriginalDUID

LoadSpec == LoadInit /\ [][LoadNext]_vars

\* ------------------------------------------------------------- codec calls
\* a Buffer written down as hex text: two digits per byte, the first from the
\* digits hi and the second from lo, with sep between the bytes
RECURSIVE Written(_, _, _, _)
Written(b, sep, hi, lo) ==
  IF Len(b) = 0 THEN <<>>
  ELSE <<hi[(b[1] \div 16) + 1], lo[(b[1] % 16) + 1]>>
         \o (IF Len(b) > 1 THEN sep ELSE <<>>) \o Written(Tail(b), sep, hi, lo)

\* the same with sep after every digit but the last
RECURSIVE Spaced(_, _)
Spaced(digits, sep) ==
  IF Len(digits) <= 1 THEN digits
  ELSE <<digits[1]>> \o sep \o Spaced(Tail(digits), sep)

DigitTables == {HexLower, HexUpper}

\* MAC addresses a caller supplies: xx:xx:xx:xx:xx:xx in lower-case, upper-case
\* and mixed-case hex
MacBytesPool == {<<17, 34, 51, 68, 85, 102>>, <<170, 187, 204, 221, 238, 255>>,
                 <<0, 10, 27, 172, 13, 254>>}
CodecMacs ==
  {NoMac} \cup {Written(m, <<":">>, hi, lo) : m \in MacBytesPool, hi \in DigitTables,
                                               lo \in DigitTables}

\* what Math.random() gives generateRandomMAC: every first byte
Rnd6Pool == {<<a>> \o rest : a \in 0..255, rest \in {<<1, 2, 3, 4, 5>>, <<255, 0, 16, 171, 254>>}}

\* what Math.random() gives the UUID: every value of the bytes that land in
\* buf[8] and buf[10], each with some values of the other and of the rest
ByteEdges == {0, 64, 191, 255}
Rnd16Fill == {Rnd16, [i \in 1..16 |-> (17 * i) % 256]}
Rnd16Pool ==
  {[i \in 1..16 |-> IF i = 7 THEN ab[1] ELSE IF i = 9 THEN ab[2] ELSE fill[i]] :
     ab \in ((0..255) \X ByteEdges) \cup (ByteEdges \X (0..255)), fill \in Rnd16Fill}

\* Buffers a caller holds: every sequence of up to MaxBytes of some bytes, and
\* DUIDs of every type tag cut at every length
ByteSamples == {0, 10, 171, 255}
ShortBuffers == UNION {[1..n -> ByteSamples] : n \in 0..MaxBytes}
Filler == <<0, 1, 30, 97, 188, 0, 17, 34, 51, 68, 85, 102, 119, 136, 153, 170, 187, 204>>
CutDuids ==
  {SubSeq(UInt16BE(tag) \o Filler, 1, n) : tag \in (DUID_LLT - 1)..(DUID_UUID + 1),
                                            n \in 2..(Len(Filler) + 2)}
BufferPool == ShortBuffers \cup CutDuids \cup {FactoryDUID, OperatorDUID(1)}

\* the Buffers a caller writes down as text, and the ways it writes one down
WrittenPool == ShortBuffers \cup {OperatorDUID(1)}
Separators == {<<>>, <<":">>, <<" ">>, <<"\t">>, <<"\n">>, <<":", " ">>}
Writings(b) ==
  {Written(b, sep, hi, lo) : sep \in Separators, hi \in DigitTables, lo \in DigitTables}
    \cup {Spaced(Written(b, <<>>, HexUpper, HexUpper), <<" ">>)}

\* a caller about to generate a DUID, one holding a Buffer, one holding a text
CodecInit ==
  /\ HostInit /\ platform = "darwin" /\ privileged /\ orig0 = Null
  /\ sysDir = TRUE /\ origSys = NoRecord /\ origUser = NoRecord
  /\ race = RaceIdle
  /\ \/ \E type \in GeneratedTypes \cup {DUID_UUID + 1}, mac \in CodecMacs :
        \E rnd6 \in (IF mac = NoMac /\ type # DUID_UUID THEN Rnd6Pool ELSE {Rnd6}),
           rnd16 \in (IF mac = NoMac /\ type = DUID_UUID THEN Rnd16Pool ELSE {Rnd16}) :
          codec = [CodecIdle EXCEPT !.kind = "generate", !.type = type, !.mac = mac,
                                    !.rnd6 = rnd6, !.rnd16 = rnd16]
     \/ \E b \in BufferPool \cup {Null} :
          codec = [CodecIdle EXCEPT !.kind = "buffer", !.buf = b]
     \/ \E b \in WrittenPool : \E w \in Writings(b) :
          codec = [CodecIdle EXCEPT !.kind = "text", !.written = b, !.text = w]

GenerateRandomMAC ==
  /\ codec.kind = "generate" /\ codec.last = "init" /\ codec.mac = NoMac
  /\ codec' = [codec EXCEPT !.macOut = generateRandomMAC(codec.rnd6),
                            !.last = "generateRandomMAC"]
  /\ UNCHANGED <<hostVars, race>>

\* generateDUID(type, mac); a throw leaves the caller without a Buffer
GenerateDUID ==
  /\ codec.kind = "generate" /\ codec.last = "init"
  /\ \E duid \in {generateDUID(codec.type, codec.mac, codec.rnd6, codec.rnd16, NowSeconds)} :
       codec' = [codec EXCEPT !.buf = duid, !.thrown = (duid = Null),
                              !.last = "generateDUID"]
  /\ UNCHANGED <<hostVars, race>>

ParseDUID ==
  /\ \/ codec.kind = "buffer" /\ codec.last = "init"
     \/ codec.last \in {"generateDUID", "hexToDuid"} /\ ~codec.thrown
  /\ codec' = [codec EXCEPT !.parsed = parseDUID(codec.buf), !.last = "parseDUID"]
  /\ UNCHANGED <<hostVars, race>>

DuidToHex ==
  /\ \/ codec.kind = "buffer" /\ codec.last = "init" /\ codec.buf # Null
     \/ codec.last = "generateDUID" /\ ~codec.thrown
  /\ codec' = [codec EXCEPT !.text = duidToHex(codec.buf), !.last = "duidToHex"]
  /\ UNCHANGED <<hostVars, race>>

\* formatDUID(duid); it throws for the empty Buffer
FormatDUID ==
  /\ \/ codec.kind = "buffer" /\ codec.last = "init" /\ codec.buf # Null
     \/ codec.last = "generateDUID" /\ ~codec.thrown
  /\ \E text \in {formatDUID(codec.buf)} :
       codec' = [codec EXCEPT !.text = text, !.thrown = (text = ThrowText),
                              !.last = "formatDUID"]
  /\ UNCHANGED <<hostVars, race>>

HexToDuid ==
  /\ \/ codec.kind = "text" /\ codec.last = "init"
     \/ codec.last \in {"duidToHex", "formatDUID"} /\ ~codec.thrown
  /\ codec' = [codec EXCEPT !.buf = hexToDuid(codec.text), !.last = "hexToDuid"]
  /\ UNCHANGED <<hostVars, race>>

\* the codec's functions as a caller of the library uses them
CodecNext ==
  \/ GenerateRandomMAC
  \/ GenerateDUID
  \/ ParseDUID
  \/ DuidToHex
  \/ FormatDUID
  \/ HexToDuid

CodecSpec == CodecInit /\ [][CodecNext]_vars

\* ------------------------------------------- concurrent storeOriginalDUID
\* both invocations are about to call storeOriginalDUID, each with a Buffer,
\* on a host with no record
RaceInit ==
  /\ HostInit
  /\ sysDir = (platform = "darwin")
  /\ origSys = NoRecord /\ origUser = NoRecord
  /\ codec = CodecIdle
  /\ \E duids \in [Procs -> StoreInputs] :
       race = [RaceIdle EXCEPT
                 !.proc = [p \in Procs |-> [@[p] EXCEPT !.pc = "path", !.duid = duids[p]]]]

\* what a step of an invocation leaves unchanged
RaceFrame ==
  UNCHANGED <<platform, client, privileged, duidFile, defaultsOut, leases, ipv6, sdConf,
              sdNet, sdActive, dhConf, nmDuid, regDuid, orig0, hist, opCount, lastOp,
              lastIface, ret, retDuid, trace, stepFault, codec>>

StorePathStep ==
  \E p \in Procs :
    /\ race.proc[p].pc = "path"
    /\ \E r \in {storeOriginalDUID_path(World, race.proc[p])} :
         /\ sysDir' = r.s.sysDir /\ origSys' = r.s.origSys /\ origUser' = r.s.origUser
         /\ race' = [race EXCEPT !.proc[p] = r.me]
    /\ RaceFrame

StoreCheckStep ==
  \E p \in Procs :
    /\ race.proc[p].pc = "check"
    /\ race' = [race EXCEPT
                  !.proc[p] = [storeOriginalDUID_check(World, race.proc[p])
                                 EXCEPT !.seen = Len(race.writes)]]
    /\ UNCHANGED <<sysDir, origSys, origUser>>
    /\ RaceFrame

StoreWriteStep ==
  \E p \in Procs, F \in FaultSets({"storeWrite"}) :
    /\ race.proc[p].pc = "write"
    /\ \E r \in {storeOriginalDUID_write(World, race.proc[p], F)} :
         /\ sysDir' = r.s.sysDir /\ origSys' = r.s.origSys /\ origUser' = r.s.origUser
         /\ race' = [race EXCEPT !.proc[p] = [r.me EXCEPT !.failed = (F # {})],
                                 !.writes = IF r.me.ret = "true" THEN Append(@, p) ELSE @]
    /\ RaceFrame

RaceNext ==
  \/ StorePathStep
  \/ StoreCheckStep
  \/ StoreWriteStep

RaceSpec == RaceInit /\ [][RaceNext]_vars

\* -------------------------------------------------------------- properties
\* what the operating system holds of the DUID, the leases and the IPv6 stack
OSState == <<duidFile, defaultsOut, leases, ipv6, sdConf, sdNet, sdActive, dhConf, nmDuid,
             regDuid>>

\* the calls other than the explicit clear that C2 lists
NonClearOps == SetFamily \cup {"restoreDUID", "resetDUID", "backupOriginal"}

\* C1: on a host whose active DUID was O before any call, after one or more
\* setDUID / randomizeDUID / syncDUID calls that returned normally (and nothing
\* else), load() returns exactly O.
C1_OriginalKeptAcrossSets ==
  (hist = "sets" /\ orig0 # Null) => LoadNow = orig0

\* C2: a record file that exists is neither removed nor rewritten by a setDUID,
\* randomizeDUID, syncDUID, restoreDUID, resetDUID or backupOriginal call.
C2_OnlyClearDeletes ==
  [][lastOp' \in NonClearOps =>
       /\ (origSys # NoRecord => origSys' = origSys)
       /\ (origUser # NoRecord => origUser' = origUser)]_vars

\* the account may write at the path getOriginalDUIDPath() gives it
StoreWritable == privileged \/ (platform # "darwin" /\ ~sysDir)

\* C3: the store is write-once.  From every state and for all Buffers A and B:
\* when has() is true, storeOriginalDUID(A) returns false and changes neither
\* record file; when has() is false and the path is writable,
\* storeOriginalDUID(A) returns true and load() is then A, and a
\* storeOriginalDUID(B) after it returns false, changes neither record file
\* and leaves load() at A.
C3_StoreWriteOnce ==
  \A A \in StoreInputs, B \in StoreInputs :
    LET r1 == storeOriginalDUID(World, A, {})
        r2 == storeOriginalDUID(r1, B, {})
    IN IF HasNow
         THEN r1.ret = "false" /\ r1.origSys = origSys /\ r1.origUser = origUser
         ELSE StoreWritable =>
                /\ r1.ret = "true" /\ getOriginalDUID(r1, {}).duid = A
                /\ r2.ret = "false" /\ getOriginalDUID(r2, {}).duid = A
                /\ r2.origSys = r1.origSys /\ r2.origUser = r1.origUser

\* a storeOriginalDUID call found a record, returned false and left it
C3_Witness ==
  /\ lastOp = "storeOriginalDUID" /\ ret = "false"
  /\ LoadNow = FactoryDUID /\ opCount >= 2

\* C4: every setDUID, randomizeDUID and syncDUID call that reaches an adapter
\* makes the backup attempt as its first step, once, before the IPv6 switch,
\* the clearing, the write or the restart; a call that returns normally has
\* made it.
C4_BackupFirst ==
  lastOp \in SetFamily =>
    /\ (ret \in {"true", "duid"} => trace # <<>>)
    /\ (trace # <<>> => trace[1] = "backup")
    /\ \A i \in 2..Len(trace) : trace[i] # "backup"

\* syncDUID on macOS with an interface went through all five steps
C4_Witness ==
  /\ lastOp = "syncDUID" /\ platform = "darwin" /\ ret = "duid"
  /\ trace = <<"backup", "v6off", "clear", "write", "v6on">>

\* C5: on a host whose active DUID was O, after setDUID-family calls that
\* returned normally and left an active DUID other than O, a restoreDUID call
\* in which no external step fails returns true, and the active DUID is then O.
C5_RestoreReturnsToOriginal ==
  [][(hist = "sets" /\ orig0 # Null /\ ActiveNow # orig0
        /\ lastOp' = "restoreDUID" /\ ~stepFault')
       => (ret' = "true" /\ \E after \in {World'} : ActiveOf(after) = orig0)]_vars

\* C6: when restoreDUID returns true (no external step having failed), the
\* active DUID equals the stored original.
C6_RestoredMeansOriginalActive ==
  (lastOp = "restoreDUID" /\ ret = "true" /\ ~stepFault)
    => (LoadNow # Null /\ ActiveNow = LoadNow)

\* C7: a restoreDUID call made while has() is false returns false, takes no
\* step, and leaves the active DUID, the leases and the IPv6 state unchanged.
C7_RestoreWithoutRecord ==
  [][(lastOp' = "restoreDUID" /\ ~HasNow)
       => (ret' = "false" /\ trace' = <<>> /\ UNCHANGED OSState)]_vars

\* restoreDUID was called on a host with an active DUID and no record
C7_Witness ==
  /\ lastOp = "restoreDUID" /\ ret = "false" /\ ~stepFault
  /\ ~HasNow /\ ActiveNow # Null

\* C8, first part: a restoreDUID call (no external step failing) made while
\* the active DUID equals the stored original returns not_spoofed and changes
\* nothing of the operating system
C8_EqualIsNotSpoofed ==
  (lastOp' = "restoreDUID" /\ ~stepFault' /\ LoadNow # Null /\ ActiveNow = LoadNow)
    => (ret' = "not_spoofed" /\ trace' = <<>> /\ UNCHANGED OSState)

\* C8, second part: a restoreDUID call right after one that returned true
\* returns not_spoofed and changes nothing of the operating system
C8_SecondRestoreIsNoOp ==
  (lastOp = "restoreDUID" /\ ret = "true" /\ ~stepFault
     /\ lastOp' = "restoreDUID" /\ lastIface' = lastIface /\ ~stepFault')
    => (ret' = "not_spoofed" /\ UNCHANGED OSState)

\* C8: restoreDUID when the active DUID equals the stored original returns
\* not_spoofed and writes nothing, and so does a second restoreDUID right
\* after a successful one.
C8_RestoreIdempotent ==
  [][C8_EqualIsNotSpoofed /\ C8_SecondRestoreIsNoOp]_vars

\* C9, first part: resetDUID leaves both record files and the store's
\* directory as they were
C9_ResetKeepsStore ==
  lastOp' = "resetDUID" =>
    (origSys' = origSys /\ origUser' = origUser /\ sysDir' = sysDir)

\* C9, second part: after setDUID-family calls and then resetDUID calls, a
\* restoreDUID call in which no external step fails leaves the host's
\* original DUID active
C9_RestoreAfterReset ==
  (hist = "setsReset" /\ orig0 # Null /\ lastOp' = "restoreDUID" /\ ~stepFault')
    => (ret' \in {"true", "not_spoofed"} /\ \E after \in {World'} : ActiveOf(after) = orig0)

\* C9: resetDUID never alters the store, so a restoreDUID after set-then-reset
\* still goes back to the original.
C9_ResetThenRestore ==
  [][C9_ResetKeepsStore /\ C9_RestoreAfterReset]_vars

\* C10: a setDUID-family call made while has() is false on a host with an
\* active DUID, returning normally with no failed step, leaves has() true and
\* load() equal to the DUID that was active before it.
C10_FirstSetRecords ==
  [][(lastOp' \in SetFamily /\ ret' \in {"true", "duid"} /\ ~stepFault'
        /\ ~HasNow /\ ActiveNow # Null)
       => \E after \in {World'} : HasOf(after) /\ LoadOf(after) = ActiveNow]_vars

\* C11: a setDUID, randomizeDUID or syncDUID call with an interface is never
\* ended by its IPv6 switch-off or switch-on step: when the call throws, the
\* step it threw in is not one of these two.
C11_V6FailureTolerated ==
  (lastOp \in SetFamily /\ lastIface # NoIface /\ ret = "throw" /\ trace # <<>>)
    => trace[Len(trace)] \notin {"v6off", "v6on"}

\* the Buffer a setDUID input stands for
SetValue(input) == IF input.buf THEN input.bytes ELSE hexToDuid(input.text)

\* the DUID the platform's configuration holds after a write for iface: the
\* DUID file, the .network / 00-duid.conf file, dhclient6.conf, the
\* connection's ipv6.dhcp-duid, the registry value
ConfiguredOf(w, iface) ==
  CASE w.platform = "darwin" -> w.duidFile
    [] w.platform = "win32" ->
         IF w.regDuid = NoFile THEN Null ELSE BufferFromHex(w.regDuid)
    [] w.client = "systemd" ->
         IF iface # NoIface
           THEN IF w.sdNet = NoFile THEN Null ELSE BufferFromHex(w.sdNet)
           ELSE IF w.sdConf = NoFile THEN Null ELSE BufferFromHex(w.sdConf)
    [] w.client = "dhclient" ->
         IF w.dhConf = NoFile \/ Len(w.dhConf) = 0 THEN Null ELSE hexToDuid(w.dhConf)
    [] w.client = "networkmanager" ->
         IF Len(w.nmDuid) = 0 THEN Null ELSE hexToDuid(w.nmDuid)
    [] OTHER -> Null

\* C12: a setDUID, randomizeDUID or syncDUID call that returns normally has
\* written its DUID: the platform's configuration then holds that DUID.
C12_SuccessMeansWritten ==
  /\ (lastOp = "setDUID" /\ ret = "true")
       => \E input \in SetInputs : ConfiguredOf(World, lastIface) = SetValue(input)
  /\ (lastOp \in {"randomizeDUID", "syncDUID"} /\ ret = "duid")
       => ConfiguredOf(World, lastIface) = retDuid

\* the order of the steps of setDUID that C13 states
StepOrder == <<"backup", "v6off", "clear", "write", "v6on", "restart">>
StepRank(step) == CHOOSE k \in 1..Len(StepOrder) : StepOrder[k] = step

\* C13: the steps of a setDUID, randomizeDUID or syncDUID call with an
\* interface occur in the order backup, IPv6 off, clear, write, IPv6 on; the
\* write never precedes the IPv6 switch-off.
C13_StepOrder ==
  (lastOp \in SetFamily /\ lastIface # NoIface) =>
    \A i \in 1..Len(trace), j \in 1..Len(trace) :
      i < j => StepRank(trace[i]) < StepRank(trace[j])

\* the types whose DUID carries a link-layer address
LinkLayerTypes == {DUID_LLT, DUID_LL}

SameStoreAndOS(w) ==
  /\ w.origSys = origSys /\ w.origUser = origUser /\ w.sysDir = sysDir
  /\ <<w.duidFile, w.defaultsOut, w.leases, w.ipv6, w.sdConf, w.sdNet, w.sdActive,
       w.dhConf, w.nmDuid, w.regDuid>> = OSState

\* C15: from every state and for every type, syncDUID without an interface
\* name, and syncDUID for an interface whose MAC cannot be read, throw without
\* having taken a step: no backup, no write, the record files and the
\* operating system's state are as before.
C15_NoMacNoChange ==
  \A type \in TypePool :
    LET noName == syncDUID(Begin(World, "syncDUID", NoIface), NoIface, type, {})
        noMac  == syncDUID(Begin(World, "syncDUID", Iface), Iface, type, {"macRead"})
    IN \A r \in {noName, noMac} :
         r.ret = "throw" /\ r.trace = <<>> /\ SameStoreAndOS(r)

\* syncDUID found no MAC on a host that has an active DUID and no record of it
C15_Witness ==
  /\ lastOp = "syncDUID" /\ lastIface = Iface /\ ret = "throw" /\ stepFault
  /\ trace = <<>> /\ ActiveNow # Null /\ ~HasNow /\ StoreWritable

\* C16: a randomizeDUID call that returns, no external step having failed,
\* has returned a DUID generateDUID makes of the requested type; that DUID is
\* the one the adapter wrote, and it is the active DUID after the call.
C16_RandomizeSetsWhatItReturns ==
  (lastOp = "randomizeDUID" /\ ret = "duid" /\ ~stepFault) =>
    /\ \E type \in TypePool \cap GeneratedTypes, mac \in MacPool :
         retDuid = generateDUID(type, mac, Rnd6, Rnd16, NowSeconds)
    /\ ConfiguredOf(World, lastIface) = retDuid
    /\ ActiveNow = retDuid

\* the platform's mechanism has no DUID to report: no DUID file and nothing
\* from `defaults read`, no DUID line of networkctl, no client-id line, an
\* empty dhcp6.duid, no Dhcpv6DUID value
NothingToReport ==
  CASE platform = "darwin" -> duidFile = Null /\ defaultsOut \in {NoFile, <<>>}
    [] platform = "win32" -> regDuid = NoFile
    [] client = "systemd" -> sdActive = <<>>
    [] client = "dhclient" -> dhConf \in {NoFile, <<>>}
    [] client = "networkmanager" -> nmDuid = <<>>
    [] OTHER -> TRUE

\* C17: a getCurrentDUID call never throws; when its read fails, and when the
\* platform has no DUID to report, it returns null.
C17_GetCurrentNeverThrows ==
  lastOp = "getCurrentDUID" =>
    /\ ret = "duid"
    /\ (stepFault \/ NothingToReport) => retDuid = Null

\* getCurrentDUID returned null because its read failed, a DUID being active
C17_Witness ==
  /\ lastOp = "getCurrentDUID" /\ ret = "duid" /\ retDuid = Null
  /\ stepFault /\ ~NothingToReport /\ ActiveNow # Null

\* C18: from every state, `original clear` leaves both record files as they
\* are when the caller is not privileged or --force is not given, and with
\* both it ends with has() false; clearOriginalDUID itself, where the account
\* may write, returns true exactly when a record was there, and has() is
\* false after it.
C18_ClearOnlyWhenForced ==
  /\ \A force \in BOOLEAN :
       LET r == commands_original_clear(Begin(World, "originalClear", NoIface), force, {})
       IN /\ (~privileged \/ ~force) => (r.origSys = origSys /\ r.origUser = origUser)
          /\ (privileged /\ force) => (r.ret \in {"cleared", "nothing"} /\ ~HasOf(r))
          /\ r.ret = "cleared" <=> (privileged /\ force /\ HasNow)
  /\ LET c == clearOriginalDUID(Begin(World, "clearOriginalDUID", NoIface), {})
     IN (StoreWritable \/ ~HasNow) =>
          /\ c.ret = (IF HasNow THEN "true" ELSE "false")
          /\ ~HasOf(c)
          /\ ~HasNow => (c.origSys = origSys /\ c.origUser = origUser)

\* `original clear --force` run as root deleted the record
C18_Witness ==
  /\ lastOp = "originalClear" /\ ret = "cleared" /\ privileged /\ ~HasNow
  /\ origSys = NoRecord /\ opCount >= 2

\* the record file getOriginalDUID reads in this state
RecordNow == FileAt(World, getOriginalDUIDPath(World).path)

ClearOps == {"clearOriginalDUID", "originalClear"}

\* C20: a record that has() and load() find is found, with the same DUID, by
\* has() and load() after every later invocation that is not a clear, under
\* whichever account it runs.
C20_PathStable ==
  [][(HasNow /\ lastOp' \notin ClearOps)
       => \E after \in {World'} : HasOf(after) /\ LoadOf(after) = LoadNow]_vars

\* numbers that are none of DUID_TYPES
UnknownTypes == {DUID_LLT - 1, DUID_UUID + 1, DUID_UUID + 3, 65536 + DUID_LL}

\* C21: generateDUID throws for every type that is none of DUID_TYPES, with
\* or without a MAC; and from every state randomizeDUID and syncDUID called
\* with such a type throw without having taken a step: no backup, no write,
\* the record files and the operating system's state are as before.
C21_UnknownTypeChangesNothing ==
  /\ \A type \in UnknownTypes, mac \in {NoMac, LiveMAC} :
       generateDUID(type, mac, Rnd6, Rnd16, NowSeconds) = Null
  /\ \A type \in UnknownTypes, iface \in Ifaces :
       LET rnd == randomizeDUID(Begin(World, "randomizeDUID", iface), type, iface, NoMac, {})
           syn == syncDUID(Begin(World, "syncDUID", iface), iface, type, {})
       IN \A r \in {rnd, syn} :
            r.ret = "throw" /\ r.trace = <<>> /\ SameStoreAndOS(r)

\* randomizeDUID was asked for an unknown type on a host that has an active
\* DUID, no record of it and a store it may write
C21_Witness ==
  /\ lastOp = "randomizeDUID" /\ ret = "throw" /\ ~stepFault /\ trace = <<>>
  /\ ActiveNow # Null /\ ~HasNow /\ StoreWritable

\* the bytes of the MAC a caller supplied
SuppliedMacBytes(mac) ==
  CHOOSE m \in MacBytesPool : \E hi \in DigitTables, lo \in DigitTables :
    mac = Written(m, <<":">>, hi, lo)

\* C22: generateDUID returns 14 bytes for DUID_LLT, 10 for DUID_LL, 18 for
\* DUID_UUID and 6 + 6 for DUID_EN, whose identifier is the six bytes of the
\* supplied MAC; the first two bytes are the requested type, big-endian.
C22_EncodedLengths ==
  (codec.last = "generateDUID" /\ ~codec.thrown) =>
    /\ Len(codec.buf) = (CASE codec.type = DUID_LLT -> 14
                           [] codec.type = DUID_EN -> 6 + 6
                           [] codec.type = DUID_LL -> 10
                           [] codec.type = DUID_UUID -> 18)
    /\ codec.buf[1] = codec.type \div 256 /\ codec.buf[2] = codec.type % 256
    /\ (codec.type = DUID_EN /\ codec.mac # NoMac) =>
         SubSeq(codec.buf, 7, Len(codec.buf)) = SuppliedMacBytes(codec.mac)

\* a DUID_EN was generated from a supplied MAC written in upper case
C22_Witness ==
  /\ codec.last = "generateDUID" /\ codec.type = DUID_EN
  /\ codec.mac = Written(<<170, 187, 204, 221, 238, 255>>, <<":">>, HexUpper, HexUpper)
  /\ Len(codec.buf) = 12

\* the name of each of DUID_TYPES
NameOfType == <<"DUID_LLT", "DUID_EN", "DUID_LL", "DUID_UUID">>

\* C23: parseDUID of a generated DUID finds the requested type and its name,
\* and for DUID_LLT and DUID_LL made from a supplied MAC, written in lower-
\* or upper-case hex, its lladdr is that MAC.
C23_RoundTrip ==
  (codec.kind = "generate" /\ codec.last = "parseDUID") =>
    /\ codec.parsed.type = codec.type
    /\ codec.parsed.typeName = NameOfType[codec.type]
    /\ (codec.type \in LinkLayerTypes /\ codec.mac # NoMac) =>
         codec.parsed.lladdr = codec.mac

UpperDigits == {HexUpper[i] : i \in 1..16}

\* C24: duidToHex gives two upper-case hex digits per byte and nothing else;
\* hexToDuid of the text duidToHex or formatDUID made of a Buffer is that
\* Buffer; and hexToDuid of a Buffer written down with ':' or whitespace
\* between the bytes or the digits, or with neither, in either letter case,
\* is that Buffer.
C24_HexRoundTrip ==
  [][/\ codec'.last = "duidToHex" =>
          /\ Len(codec'.text) = 2 * Len(codec.buf)
          /\ \A i \in 1..Len(codec'.text) : codec'.text[i] \in UpperDigits
     /\ (codec'.last = "hexToDuid" /\ codec.last \in {"duidToHex", "formatDUID"}) =>
          codec'.buf = codec.buf
     /\ (codec'.last = "hexToDuid" /\ codec.kind = "text" /\ codec.last = "init") =>
          codec'.buf = codec.written]_vars

\* a DUID went through duidToHex and hexToDuid and came back
C24_Witness ==
  /\ codec.kind = "buffer" /\ codec.last = "hexToDuid"
  /\ codec.text = Written(OperatorDUID(1), <<>>, HexUpper, HexUpper)
  /\ codec.buf = OperatorDUID(1)

\* C25: of two concurrent storeOriginalDUID calls on a host with no record,
\* every call that found no record at its check, and whose write did not
\* fail, has written and returned true, whatever the other call wrote in
\* between; the record is then that of the call that wrote last; and a call
\* that made its check after a write returned false and wrote nothing.
C25_RaceOverwrites ==
  /\ \A p \in Procs :
       LET me == race.proc[p] IN
       me.pc = "done" =>
         /\ (me.seen = 0 /\ ~me.failed /\ StoreWritable) =>
              (me.ret = "true" /\ \E i \in 1..Len(race.writes) : race.writes[i] = p)
         /\ me.seen > 0 =>
              (me.ret = "false" /\ \A i \in 1..Len(race.writes) : race.writes[i] # p)
  /\ race.writes # <<>> =>
       LET last == race.proc[race.writes[Len(race.writes)]]
       IN FileAt(World, last.path) = JsonRecord(toStringHex(last.duid), platform)

\* both calls passed the check before either wrote, both returned true, and
\* the record of the first writer was replaced by that of the second
C25_Witness ==
  /\ \A p \in Procs : race.proc[p].pc = "done" /\ race.proc[p].ret = "true"
                        /\ race.proc[p].seen = 0
  /\ race.writes = <<1, 2>>
  /\ race.proc[1].duid # race.proc[2].duid
  /\ LoadNow = race.proc[2].duid

\* the least length at which parseDUID reads the members of each type
MinLength == <<14, 6, 10, 18>>

\* C26: parseDUID of null and of a Buffer of fewer than two bytes gives the
\* 'unknown' result that carries the argument and nothing else; of a longer
\* Buffer it gives the type tag, its name and the colon-hex text of the
\* Buffer, and the members of the type exactly when the tag is one of
\* DUID_TYPES and the Buffer has that type's least length; it never throws.
C26_ShortInput ==
  (codec.kind = "buffer" /\ codec.last = "parseDUID") =>
    LET b == codec.buf
        p == codec.parsed
        noLinkLayer == p.hwType = -1 /\ p.lladdr = NoFile
        noTime == p.time = -1 /\ p.timeDate = -1
        noEnterprise == p.enterpriseNumber = -1 /\ p.identifier = NoFile
        noUuid == p.uuid = NoFile
        bare == noLinkLayer /\ noTime /\ noEnterprise /\ noUuid
    IN /\ ~codec.thrown
       /\ IF b = Null \/ Len(b) < 2
            THEN p.type = -1 /\ p.typeName = "none" /\ p.raw = b /\ bare
            ELSE LET type == 256 * b[1] + b[2] IN
                 /\ p.type = type
                 /\ p.typeName = (IF type \in 1..4 THEN NameOfType[type] ELSE "unknown")
                 /\ p.raw = Written(b, <<":">>, HexUpper, HexUpper)
                 /\ IF type \notin 1..4 \/ Len(b) < MinLength[type] THEN bare
                    ELSE CASE type = DUID_LLT ->
                                /\ p.hwType # -1 /\ p.lladdr # NoFile /\ p.time # -1
                                /\ p.timeDate # -1 /\ noEnterprise /\ noUuid
                           [] type = DUID_EN ->
                                /\ p.enterpriseNumber # -1 /\ p.identifier # NoFile
                                /\ noLinkLayer /\ noTime /\ noUuid
                           [] type = DUID_LL ->
                                /\ p.hwType # -1 /\ p.lladdr # NoFile
                                /\ noTime /\ noEnterprise /\ noUuid
                           [] type = DUID_UUID ->
                                /\ p.uuid # NoFile /\ noLinkLayer /\ noTime /\ noEnterprise

\* parseDUID was given a DUID_LLT one byte short of its fourteen
C26_Witness ==
  /\ codec.kind = "buffer" /\ codec.last = "parseDUID"
  /\ Len(codec.buf) = 13 /\ codec.parsed.type = DUID_LLT
  /\ codec.parsed.typeName = "DUID_LLT" /\ codec.parsed.lladdr = NoFile

\* C27: a generated DUID_UUID has 0100 in the high four bits of buf[8] and 10
\* in the high two bits of buf[10]; the low bits of those two bytes and every
\* other byte after the type are the random bytes drawn.
C27_UuidBits ==
  (codec.last = "generateDUID" /\ codec.type = DUID_UUID) =>
    /\ Len(codec.buf) = 18
    /\ codec.buf[9] \div 16 = 4 /\ codec.buf[9] % 16 = codec.rnd16[7] % 16
    /\ codec.buf[11] \div 64 = 2 /\ codec.buf[11] % 64 = codec.rnd16[9] % 64
    /\ \A i \in (1..16) \ {7, 9} : codec.buf[2 + i] = codec.rnd16[i]

\* a DUID_UUID was generated from random bytes that had other bits there
C27_Witness ==
  /\ codec.last = "generateDUID" /\ codec.type = DUID_UUID
  /\ codec.rnd16[7] = 191 /\ codec.rnd16[9] = 77
  /\ codec.buf[9] = 79 /\ codec.buf[11] = 141

\* the byte written as the k-th pair of digits of a colon-separated address
ByteAt(mac, k) == 16 * HexVal(mac[3 * k - 2]) + HexVal(mac[3 * k - 1])
LowerDigits == {HexLower[i] : i \in 1..16}

\* C28: generateRandomMAC returns 17 characters, six pairs of lower-case hex
\* digits with ':' between them; its first byte has bit 1 set and bit 0
\* clear and its other six bits as drawn, and the other five bytes are as
\* drawn; a DUID_LL or DUID_LLT generated without a MAC carries, as lladdr,
\* the address generateRandomMAC makes of the same random bytes.
C28_RandomMacBits ==
  /\ codec.last = "generateRandomMAC" =>
       LET mac == codec.macOut IN
       /\ Len(mac) = 17
       /\ \A i \in 1..17 : IF i % 3 = 0 THEN mac[i] = ":" ELSE mac[i] \in LowerDigits
       /\ ByteAt(mac, 1) % 4 = 2
       /\ ByteAt(mac, 1) \div 4 = codec.rnd6[1] \div 4
       /\ \A k \in 2..6 : ByteAt(mac, k) = codec.rnd6[k]
  /\ (codec.last = "generateDUID" /\ codec.type \in LinkLayerTypes /\ codec.mac = NoMac) =>
       LET lladdr == parseDUID(codec.buf).lladdr IN
       /\ lladdr = generateRandomMAC(codec.rnd6)
       /\ ByteAt(lladdr, 1) % 4 = 2
       /\ ByteAt(lladdr, 1) \div 4 = codec.rnd6[1] \div 4
       /\ \A k \in 2..6 : ByteAt(lladdr, k) = codec.rnd6[k]

\* generateRandomMAC drew a first byte with bit 0 set and bit 1 clear
C28_Witness ==
  /\ codec.last = "generateRandomMAC" /\ codec.rnd6[1] = 253
  /\ ByteAt(codec.macOut, 1) = 254

\* C29: after a setDUID call that throws, the active DUID is the one that was
\* active before the call or the one the call was asked to set.
C29_FailedSetKeepsDUID ==
  [][(lastOp' = "setDUID" /\ ret' = "throw") =>
       \E after \in {World'} :
         \/ ActiveOf(after) = ActiveNow
         \/ \E input \in SetInputs : ActiveOf(after) = SetValue(input)]_vars

\* the store's operations that only read
ReadOnlyOps == {"getOriginalDUIDPath", "hasOriginalDUID", "getOriginalDUID"}

\* C30: getOriginalDUIDPath, hasOriginalDUID and getOriginalDUID create no
\* directory and no file and change no record file.
C30_ReadsChangeNothing ==
  [][lastOp' \in ReadOnlyOps =>
       (sysDir' = sysDir /\ origSys' = origSys /\ origUser' = origUser)]_vars

====
